---- MODULE Spec2Model ----
(***************************************************************************)
(* A state-machine model of client_curses.py (BerylliumSwallow): the       *)
(* schema-driven table renderer (Buffer.renew), the two live views, and    *)
(* the modal input loop of main().                                         *)
(*                                                                         *)
(* Python values are tagged records, so that None, a str, an int and a     *)
(* dict can be told apart as the interpreter tells them apart.  A str is   *)
(* a sequence of one-character strings.  An operator that can raise        *)
(* returns [exc |-> "", ...] on success and [exc |-> <exception>] when it  *)
(* raises.                                                                 *)
(*                                                                         *)
(* The curses windows are the environment of the program: the model keeps  *)
(* what the program computes and hands to them (the cells, the compose     *)
(* line, the two dirty flags), not what the terminal does with it.  The    *)
(* only reading the editor makes of the terminal is win_cols, which it     *)
(* compares with the cursor; the narrow widths of Widths stand for any     *)
(* width, the comparison being the same at 3 columns and at 80.            *)
(***************************************************************************)
EXTENDS Integers, Sequences, FiniteSets, TLC

VARIABLES
    pc,               \* where main() is: "start", "tick", "render", "poll", "quit", "raised"
    exc,              \* the exception that left main(), "" while none has
    text_entry_mode,  \* main: text_entry_mode
    compose,          \* main: compose
    cursor_pos,       \* main: cursor_pos
    k,                \* main: k, the last key getch() returned (0 before the first)
    win_cols,         \* main: win_cols
    beeped,           \* whether the last dispatch called curses.beep()
    current_buffer,   \* main: current_buffer, the fields of the Buffer object
    age               \* datetime.now() - current_buffer.last_refreshed, in ticks

vars == <<pc, exc, text_entry_mode, compose, cursor_pos, k, win_cols, beeped,
          current_buffer, age>>

(***************************************************************************)
(* Python values                                                           *)
(***************************************************************************)
None == [t |-> "None"]

S(s) == [t |-> "str", s |-> s]

I(n) == [t |-> "int", n |-> n]

D(d) == [t |-> "dict", d |-> d]

\* a callable stored in a schema tuple: "ljust", "rjust" or "platform_justify"
F(f) == [t |-> "fn", f |-> f]

\* bool(v)
Truthy(v) ==
    CASE v.t = "None" -> FALSE
      [] v.t = "str"  -> v.s # <<>>
      [] v.t = "int"  -> v.n # 0
      [] v.t = "dict" -> DOMAIN v.d # {}
      [] OTHER        -> TRUE

\* a or b
Or(a, b) == IF Truthy(a) THEN a ELSE b

(***************************************************************************)
(* Characters and strings                                                  *)
(***************************************************************************)
\* the printable ASCII characters, code 0x20 first (code 0x60 is written "grave":
\* a string of the module cannot hold that character)
Ascii ==
    <<
       " ", "!", "\"", "#", "$", "%", "&", "'", "(", ")", "*", "+", ",", "-", ".", "/",
       "0", "1", "2", "3", "4", "5", "6", "7", "8", "9", ":", ";", "<", "=", ">", "?",
       "@", "A", "B", "C", "D", "E", "F", "G", "H", "I", "J", "K", "L", "M", "N", "O",
       "P", "Q", "R", "S", "T", "U", "V", "W", "X", "Y", "Z", "[", "\\", "]", "^", "_",
       "grave", "a", "b", "c", "d", "e", "f", "g", "h", "i", "j", "k", "l", "m", "n", "o",
       "p", "q", "r", "s", "t", "u", "v", "w", "x", "y", "z", "{", "|", "}", "~"
    >>

\* chr(c) for a printable code
Chr(c) == Ascii[c - 31]

\* ord(ch)
Ord(ch) == CHOOSE c \in 32..126 : Ascii[c - 31] = ch

IsUpper(ch) == ch \in {Ascii[i] : i \in 34..59}

IsLower(ch) == ch \in {Ascii[i] : i \in 66..91}

\* str.isalpha() of one character
IsAlpha(ch) == IsUpper(ch) \/ IsLower(ch)

\* str.isnumeric() of one character
IsNumeric(ch) == ch \in {Ascii[i] : i \in 17..26}

\* str.lower()
Lower(s) == [i \in 1..Len(s) |-> IF IsUpper(s[i]) THEN Chr(Ord(s[i]) + 32) ELSE s[i]]

\* str.upper()
Upper(s) == [i \in 1..Len(s) |-> IF IsLower(s[i]) THEN Chr(Ord(s[i]) - 32) ELSE s[i]]

\* n spaces
Spaces(n) == [i \in 1..n |-> " "]

\* s[:n] for n >= 0
Take(s, n) == SubSeq(s, 1, IF n < Len(s) THEN n ELSE Len(s))

\* s[n:] for n >= 0
Drop(s, n) == SubSeq(s, n + 1, Len(s))

\* s.startswith(p)
StartsWith(s, p) == Len(s) >= Len(p) /\ SubSeq(s, 1, Len(p)) = p

\* str.ljust(s, w): pads, never truncates
ljust(s, w) == IF w > Len(s) THEN s \o Spaces(w - Len(s)) ELSE s

\* str.rjust(s, w): pads, never truncates
rjust(s, w) == IF w > Len(s) THEN Spaces(w - Len(s)) \o s ELSE s

\* str.center(s, w): CPython puts the odd space on the left when w is odd
center(s, w) ==
    IF w > Len(s)
    THEN LET marg == w - Len(s)
             left == (marg \div 2) + (IF marg % 2 = 1 /\ w % 2 = 1 THEN 1 ELSE 0)
         IN  Spaces(left) \o s \o Spaces(marg - left)
    ELSE s

RECURSIVE Digits(_)
\* the decimal digits of n >= 0
Digits(n) == IF n < 10 THEN <<Chr(48 + n)>> ELSE Digits(n \div 10) \o <<Chr(48 + (n % 10))>>

\* str(v) of a value held in a row
Str(v) ==
    CASE v.t = "None" -> <<"N", "o", "n", "e">>
      [] v.t = "str"  -> v.s
      [] v.t = "int"  -> IF v.n < 0 THEN <<"-">> \o Digits(-v.n) ELSE Digits(v.n)

\* platform_justify with its test of length and its cases forgotten: str.ljust
platform_ljust(s, length) == [exc |-> "", s |-> ljust(s, length)]

\* platform_justify(str, length), length an int
platform_justify(s, length) ==
    IF length # 3 THEN [exc |-> "ValueError", s |-> <<>>]
    ELSE IF s = <<>> THEN [exc |-> "", s |-> <<" ", " ", " ">>]
    ELSE IF Len(s) = 1 THEN [exc |-> "", s |-> <<" ">> \o s \o <<" ">>]
    ELSE IF IsAlpha(s[Len(s)]) /\ IsNumeric(s[1]) THEN [exc |-> "", s |-> rjust(s, 3)]
    ELSE [exc |-> "", s |-> ljust(s, 3)]

(***************************************************************************)
(* Schema resolution (Buffer.renew, both passes)                           *)
(*                                                                         *)
(* A schema node is a leaf tuple [tup |-> <<name, pad, justify, color>>]   *)
(* (of length 0 to 4) or a dict [map |-> [segment |-> node]], whose "_"    *)
(* entry, when present, is the tuple of inherited defaults.  A display     *)
(* path is the sequence of its segments, that is column.split("/").        *)
(***************************************************************************)
IsDict(node) == "map" \in DOMAIN node

NoInherit == <<None, None, None, None>>

\* (current_schema.get("_", ()) + (None, None, None, None))[:4]
Defaults(node) ==
    SubSeq((IF "_" \in DOMAIN node.map THEN node.map["_"].tup ELSE <<>>) \o NoInherit, 1, 4)

\* [a or b for a, b in zip(inherited, defaults)]
Inherit(inherited, defaults) == [i \in 1..4 |-> Or(inherited[i], defaults[i])]

\* current_cell[level]
Subscript(cell, level) ==
    IF cell.t # "dict" THEN [exc |-> "TypeError", v |-> None]
    ELSE IF level \notin DOMAIN cell.d THEN [exc |-> "KeyError", v |-> None]
    ELSE [exc |-> "", v |-> cell.d[level]]

RECURSIVE Walk(_, _, _, _, _)
\* the loop over column.split("/"): with_cell is TRUE in the cell pass, which
\* also walks the row
Walk(node, cell, path, inherited, with_cell) ==
    IF path = <<>> THEN [exc |-> "", node |-> node, cell |-> cell, inherited |-> inherited]
    ELSE IF ~IsDict(node)
    THEN [exc |-> "AttributeError", node |-> node, cell |-> cell, inherited |-> inherited]
    ELSE LET inh == Inherit(inherited, Defaults(node))
             sub == IF with_cell THEN Subscript(cell, Head(path)) ELSE [exc |-> "", v |-> cell]
         IN  IF sub.exc # ""
             THEN [exc |-> sub.exc, node |-> node, cell |-> cell, inherited |-> inh]
             ELSE IF Head(path) \notin DOMAIN node.map
             THEN [exc |-> "KeyError", node |-> node, cell |-> cell, inherited |-> inh]
             ELSE Walk(node.map[Head(path)], sub.v, Tail(path), inh, with_cell)

\* current_schema[i] after the walk, i counted from 0
LeafItem(node, i) ==
    IF IsDict(node) THEN [exc |-> "KeyError", v |-> None]
    ELSE IF Len(node.tup) <= i THEN [exc |-> "IndexError", v |-> None]
    ELSE [exc |-> "", v |-> node.tup[i + 1]]

\* current_schema[i] if len(current_schema) >= i + 1, else the preset value
LeafOptional(node, i, preset) ==
    IF IsDict(node) \/ Len(node.tup) <= i THEN preset ELSE node.tup[i + 1]

\* lines 67-74 of the header pass, w what the walk of the path left
HeaderOf(w, name0, pad0) ==
    IF w.exc # "" THEN [exc |-> w.exc]
    ELSE IF name0.exc # "" THEN [exc |-> name0.exc]
    ELSE IF pad0.exc # "" THEN [exc |-> pad0.exc]
    ELSE IF Or(name0.v, w.inherited[1]).t # "str" \/ Or(pad0.v, w.inherited[2]).t # "int"
    THEN [exc |-> "TypeError"]
    ELSE [exc |-> "",
          cell |-> [text |-> center(Take(Or(name0.v, w.inherited[1]).s, Or(pad0.v, w.inherited[2]).n),
                                    Or(pad0.v, w.inherited[2]).n),
                    color |-> 0]]

\* current_schema[0] and current_schema[1] of the header pass (line 67)
HeaderItems(w) == HeaderOf(w, LeafItem(w.node, 0), LeafItem(w.node, 1))

\* the header cell of one column (lines 62-74)
HeaderCell(schema, column) == HeaderItems(Walk(schema, None, column, NoInherit, FALSE))

\* lines 88-94 of the cell pass, w what the walk of the path left
ResolveOf(w, pad0) ==
    IF w.exc # "" THEN [exc |-> w.exc]
    ELSE IF pad0.exc # "" THEN [exc |-> pad0.exc]
    ELSE [exc |-> "", cell |-> w.cell, pad |-> Or(pad0.v, w.inherited[2]),
          justify |-> Or(LeafOptional(w.node, 2, None), w.inherited[3]),
          color |-> Or(Or(LeafOptional(w.node, 3, I(0)), w.inherited[4]), I(0)).n]

ResolveItems(w) == ResolveOf(w, LeafItem(w.node, 1))

\* pad or inherited_pad, as both passes resolve it (lines 67-72, 88-94)
PadOf(w, pad0) == Or(pad0.v, w.inherited[2]).n

PadItems(w) == PadOf(w, LeafItem(w.node, 1))

\* the width the schema resolves for one column
Width(schema, column) == PadItems(Walk(schema, None, column, NoInherit, FALSE))

\* the cell and the resolved (pad, justify, color_scheme) of one column in the
\* cell pass (lines 80-94)
Resolve(schema, row, column) == ResolveItems(Walk(schema, row, column, NoInherit, TRUE))

(***************************************************************************)
(* The override hooks                                                      *)
(***************************************************************************)
\* x[a][b]
Item2(x, a, b) == x.d[a].d[b]

\* a == b for two values
Eq(a, b) == a.t = b.t /\ a = b

\* movement["variation_status"] in "EL" and what follows it (lines 195-199):
\* v in "EL" holds of every substring of "EL" and raises for a v that is no str
VarianceOf(movement, status, z) ==
    IF status.t # "str" THEN [exc |-> "TypeError", text |-> z.text, color |-> z.color]
    ELSE IF status.s \in {<<>>, <<"E">>, <<"L">>, <<"E", "L">>}
    THEN [exc |-> "", text |-> Str(movement.d["variation"]) \o status.s, color |-> 5]
    ELSE [exc |-> "", text |-> <<>>, color |-> 5]

\* the movement record the variance rule reads (lines 192-194)
Movement(x) ==
    IF ~Truthy(x.d["trust_departure"].d["variation_status"])
    THEN x.d["trust_arrival"] ELSE x.d["trust_departure"]

VarianceIn(movement, z) == VarianceOf(movement, movement.d["variation_status"], z)

\* the variance rule shared by both live views (lines 192-199, 346-353)
Variance(x, z) == VarianceIn(Movement(x), z)

\* the condition of the variance rule (lines 190, 345)
HasActual(x) == Truthy(Item2(x, "arrival_actual", "ut")) \/ Truthy(Item2(x, "departure_actual", "ut"))

\* Buffer.substitute_fn
Buffer_substitute_fn(x, y, z) == [exc |-> "", text |-> z.text, color |-> z.color]

\* BoardBuffer.substitute_fn; y.startswith("origin") is decided on the first
\* segment of the path
BoardBuffer_substitute_fn(x, y, z) ==
    IF y[1] = "origin" /\ Eq(Item2(x, "here", "tiploc"), Item2(x, "origin", "tiploc"))
    THEN [exc |-> "", text |-> z.text, color |-> 5]
    ELSE IF y[1] = "destination" /\ Eq(Item2(x, "here", "tiploc"), Item2(x, "destination", "tiploc"))
    THEN [exc |-> "", text |-> z.text, color |-> 5]
    ELSE IF y = <<"service", "current_variation">> /\ HasActual(x)
    THEN Variance(x, z)
    ELSE IF y = <<"service", "signalling_id">> /\ Truthy(Item2(x, "service", "actual_signalling_id"))
    THEN [exc |-> "", text |-> Item2(x, "service", "actual_signalling_id").s, color |-> 3]
    ELSE IF y = <<"platform">>
            /\ (Truthy(Item2(x, "trust_arrival", "platform")) \/ Truthy(Item2(x, "trust_departure", "platform")))
    THEN [exc |-> "",
          text |-> Or(Item2(x, "trust_departure", "platform"), Item2(x, "trust_arrival", "platform")).s,
          color |-> 3]
    ELSE IF y = <<"service", "operating_characteristics">>
            /\ \E i \in 1..Len(Item2(x, "service", "operating_characteristics").s) :
                  Item2(x, "service", "operating_characteristics").s[i] = "Q"
    THEN [exc |-> "", text |-> z.text, color |-> 7]
    ELSE [exc |-> "", text |-> z.text, color |-> z.color]

\* ServiceBuffer.substitute_fn without its elif of lines 354-355: the rule of
\* the Board View
ServiceBuffer_unified(x, y, z) ==
    IF y = <<"service", "current_variation">> /\ HasActual(x)
    THEN Variance(x, z)
    ELSE IF y = <<"platform">>
            /\ (Truthy(Item2(x, "trust_arrival", "platform")) \/ Truthy(Item2(x, "trust_departure", "platform")))
    THEN [exc |-> "",
          text |-> Or(Item2(x, "trust_departure", "platform"), Item2(x, "trust_arrival", "platform")).s,
          color |-> 3]
    ELSE [exc |-> "", text |-> z.text, color |-> z.color]

\* ServiceBuffer.substitute_fn
ServiceBuffer_substitute_fn(x, y, z) ==
    IF y = <<"service", "current_variation">> /\ HasActual(x)
    THEN Variance(x, z)
    ELSE IF y = <<"service", "current_variation">>
    THEN [exc |-> "", text |-> <<>>, color |-> 0]
    ELSE IF y = <<"platform">>
            /\ (Truthy(Item2(x, "trust_arrival", "platform")) \/ Truthy(Item2(x, "trust_departure", "platform")))
    THEN [exc |-> "",
          text |-> Or(Item2(x, "trust_departure", "platform"), Item2(x, "trust_arrival", "platform")).s,
          color |-> 3]
    ELSE [exc |-> "", text |-> z.text, color |-> z.color]

\* self.substitute_fn, dispatched on the class of the Buffer
substitute_fn(cls, x, y, z) ==
    CASE cls = "Board"   -> BoardBuffer_substitute_fn(x, y, z)
      [] cls = "Service" -> ServiceBuffer_substitute_fn(x, y, z)
      [] OTHER           -> Buffer_substitute_fn(x, y, z)

(***************************************************************************)
(* Buffer.renew                                                            *)
(***************************************************************************)
\* (justify or str.ljust)(final_row_text, pad)
Justify(justify, text, pad) ==
    IF justify.t = "fn" /\ justify.f = "platform_justify"
    THEN platform_justify(text, IF pad.t = "int" THEN pad.n ELSE -1)
    ELSE IF pad.t # "int" THEN [exc |-> "TypeError", s |-> <<>>]
    ELSE IF justify.t = "fn" /\ justify.f = "rjust" THEN [exc |-> "", s |-> rjust(text, pad.n)]
    ELSE [exc |-> "", s |-> ljust(text, pad.n)]

\* line 102: the cell appended
Celled(color, j) ==
    IF j.exc # "" THEN [exc |-> j.exc]
    ELSE [exc |-> "", cell |-> [text |-> j.s, color |-> color]]

\* lines 98-102, sub what the override hook returned
Justified(r, sub) ==
    IF sub.exc # "" THEN [exc |-> sub.exc]
    ELSE Celled(sub.color, Justify(r.justify, IF r.cell.t = "None" THEN <<>> ELSE sub.text, r.pad))

\* lines 96-102, r what the path resolved to
Formatted(cls, row, display_col, r) ==
    IF r.exc # "" THEN [exc |-> r.exc]
    ELSE Justified(r, substitute_fn(cls, row, display_col, [text |-> Str(r.cell), color |-> r.color]))

\* one cell of the cell pass (lines 80-102)
RowCell(cls, schema, row, display_col) ==
    Formatted(cls, row, display_col, Resolve(schema, row, display_col))

\* the index of the first element that raised, 0 when none did
FirstRaise(results) ==
    IF \E i \in 1..Len(results) : results[i].exc # ""
    THEN CHOOSE i \in 1..Len(results) :
            /\ results[i].exc # ""
            /\ \A j \in 1..(i - 1) : results[j].exc = ""
    ELSE 0

Cells(results, n) == [i \in 1..n |-> results[i].cell]

\* the line of one row, or the exception of the first cell that raised
LineOf(cells, bad) ==
    IF bad # 0 THEN [exc |-> cells[bad].exc]
    ELSE [exc |-> "", cell |-> Cells(cells, Len(cells))]

LineCells(cells) == LineOf(cells, FirstRaise(cells))

\* one line of the cell pass (lines 78-104)
RowLine(cls, schema, row, fmt) ==
    LineCells([c \in 1..Len(fmt) |-> RowCell(cls, schema, row, fmt[c])])

\* what renew leaves in col_names and lines: all of them, or what had been
\* appended when a cell raised, with its exception
RenewOf(heads, hbad, rows, rbad) ==
    IF hbad # 0
    THEN [exc |-> heads[hbad].exc, col_names |-> Cells(heads, hbad - 1), lines |-> <<>>]
    ELSE IF rbad # 0
    THEN [exc |-> rows[rbad].exc, col_names |-> Cells(heads, Len(heads)),
          lines |-> Cells(rows, rbad - 1)]
    ELSE [exc |-> "", col_names |-> Cells(heads, Len(heads)), lines |-> Cells(rows, Len(rows))]

RenewPasses(heads, rows) == RenewOf(heads, FirstRaise(heads), rows, FirstRaise(rows))

\* Buffer.renew without its closing invalidate() (lines 57-104)
renew(cls, d, fmt) ==
    RenewPasses([c \in 1..Len(fmt) |-> HeaderCell(d.schema, fmt[c])],
                [r \in 1..Len(d.rows) |-> RowLine(cls, d.schema, d.rows[r], fmt)])

(***************************************************************************)
(* Schemas and formats                                                     *)
(***************************************************************************)
Leaf(t) == [tup |-> t]

Map(m) == [map |-> m]

\* get_board's schema literal of BoardBuffer (lines 213-258)
BoardSchema ==
    Map(
        "service" :> Map(
            "uid" :> Leaf(<<S(<<"U", "I", "D">>), I(6), F("rjust")>>) @@
            "atoc_code" :> Leaf(<<S(<<"o", ".">>), I(2)>>) @@
            "power_type" :> Leaf(<<S(<<"p", "w", ".">>), I(3)>>) @@
            "category" :> Leaf(<<S(<<"c", ".">>), I(2)>>) @@
            "signalling_id" :> Leaf(<<S(<<"s", "i", "g", ".">>), I(4)>>) @@
            "actual_signalling_id" :> Leaf(<<S(<<"r", "t", ".", "s">>), I(4), None, I(3)>>) @@
            "current_variation" :> Leaf(<<S(<<"v", ".">>), I(3), F("rjust"), I(3)>>) @@
            "operating_characteristics" :> Leaf(<<S(<<"o", "c", ".">>), I(4)>>)) @@
        "trust_arrival" :> Map(
            "platform" :> Leaf(<<S(<<"p", "t", ".">>), I(3), F("platform_justify")>>)) @@
        "trust_departure" :> Map(
            "platform" :> Leaf(<<S(<<"p", "t", ".">>), I(3), F("platform_justify")>>)) @@
        "platform" :> Leaf(<<S(<<"p", "t", ".">>), I(3), F("platform_justify")>>) @@
        "arrival_scheduled" :> Map(
            "_" :> Leaf(<<S(<<"a", "r", "r", "i", "v", "a", "l">>)>>) @@
            "iso" :> Leaf(<<None, I(19)>>) @@
            "short" :> Leaf(<<None, I(5)>>)) @@
        "departure_scheduled" :> Map(
            "_" :> Leaf(<<S(<<"d", "e", "p", "a", "r", "t", "u", "r", "e">>)>>) @@
            "iso" :> Leaf(<<None, I(19)>>) @@
            "short" :> Leaf(<<None, I(5)>>)) @@
        "pass_scheduled" :> Map(
            "_" :> Leaf(<<S(<<"p", "a", "s", "s">>)>>) @@
            "iso" :> Leaf(<<None, I(19)>>) @@
            "short" :> Leaf(<<None, I(5)>>)) @@
        "arrival_actual" :> Map(
            "_" :> Leaf(<<S(<<"a", "r", "r", "i", "v", "a", "l">>), None, None, I(3)>>) @@
            "iso" :> Leaf(<<None, I(19)>>) @@
            "short" :> Leaf(<<None, I(4)>>)) @@
        "departure_actual" :> Map(
            "_" :> Leaf(<<S(<<"d", "e", "p", "a", "r", "t", "u", "r", "e">>), None, None, I(3)>>) @@
            "iso" :> Leaf(<<None, I(19)>>) @@
            "short" :> Leaf(<<None, I(4)>>)) @@
        "origin" :> Map(
            "_" :> Leaf(<<S(<<"o", "r", "i", "g", "i", "n">>)>>) @@
            "name" :> Leaf(<<None, I(30)>>) @@
            "tiploc" :> Leaf(<<None, I(7)>>) @@
            "crs" :> Leaf(<<None, I(3)>>)) @@
        "destination" :> Map(
            "_" :> Leaf(<<S(<<"d", "e", "s", "t", "i", "n", "a", "t", "i", "o", "n">>)>>) @@
            "name" :> Leaf(<<None, I(30)>>) @@
            "tiploc" :> Leaf(<<None, I(7)>>) @@
            "crs" :> Leaf(<<None, I(3)>>)))

\* get_board's schema literal of ServiceBuffer (lines 364-413)
ServiceSchema ==
    Map(
        "service" :> Map(
            "uid" :> Leaf(<<S(<<"U", "I", "D">>), I(6), F("rjust")>>) @@
            "atoc_code" :> Leaf(<<S(<<"o", ".">>), I(2)>>) @@
            "power_type" :> Leaf(<<S(<<"p", "w", ".">>), I(3)>>) @@
            "category" :> Leaf(<<S(<<"c", ".">>), I(2)>>) @@
            "signalling_id" :> Leaf(<<S(<<"s", "i", "g", ".">>), I(4)>>) @@
            "actual_signalling_id" :> Leaf(<<S(<<"r", "t", ".", "s">>), I(4), None, I(3)>>) @@
            "current_variation" :> Leaf(<<S(<<"v", ".">>), I(3), F("rjust"), I(3)>>) @@
            "operating_characteristics" :> Leaf(<<S(<<"o", "c", ".">>), I(4)>>)) @@
        "trust_arrival" :> Map(
            "platform" :> Leaf(<<S(<<"p", "t", ".">>), I(3), F("platform_justify")>>) @@
            "source" :> Leaf(<<S(<<"s", "o", "u", "r", "c", "e">>), I(1)>>)) @@
        "trust_departure" :> Map(
            "platform" :> Leaf(<<S(<<"p", "t", ".">>), I(3), F("platform_justify")>>) @@
            "source" :> Leaf(<<S(<<"s", "o", "u", "r", "c", "e">>), I(1)>>)) @@
        "platform" :> Leaf(<<S(<<"p", "t", ".">>), I(3), F("platform_justify")>>) @@
        "activity" :> Leaf(<<S(<<"a", "c", "t", "i", "v", "i", "t", "y">>), I(12)>>) @@
        "arrival_scheduled" :> Map(
            "_" :> Leaf(<<S(<<"a", "r", "r", "i", "v", "a", "l">>)>>) @@
            "iso" :> Leaf(<<None, I(19)>>) @@
            "short" :> Leaf(<<None, I(5)>>)) @@
        "departure_scheduled" :> Map(
            "_" :> Leaf(<<S(<<"d", "e", "p", "a", "r", "t", "u", "r", "e">>)>>) @@
            "iso" :> Leaf(<<None, I(19)>>) @@
            "short" :> Leaf(<<None, I(5)>>)) @@
        "pass_scheduled" :> Map(
            "_" :> Leaf(<<S(<<"p", "a", "s", "s">>)>>) @@
            "iso" :> Leaf(<<None, I(19)>>) @@
            "short" :> Leaf(<<None, I(5)>>)) @@
        "arrival_actual" :> Map(
            "_" :> Leaf(<<S(<<"a", "r", "r", "i", "v", "a", "l">>), None, None, I(3)>>) @@
            "iso" :> Leaf(<<None, I(19)>>) @@
            "short" :> Leaf(<<None, I(4)>>)) @@
        "departure_actual" :> Map(
            "_" :> Leaf(<<S(<<"d", "e", "p", "a", "r", "t", "u", "r", "e">>), None, None, I(3)>>) @@
            "iso" :> Leaf(<<None, I(19)>>) @@
            "short" :> Leaf(<<None, I(4)>>)) @@
        "here" :> Map(
            "_" :> Leaf(<<S(<<"l", "o", "c", "a", "t", "i", "o", "n">>)>>) @@
            "name" :> Leaf(<<None, I(30)>>) @@
            "tiploc" :> Leaf(<<None, I(7)>>) @@
            "crs" :> Leaf(<<None, I(3)>>)) @@
        "origin" :> Map(
            "_" :> Leaf(<<S(<<"o", "r", "i", "g", "i", "n">>)>>) @@
            "name" :> Leaf(<<None, I(30)>>) @@
            "tiploc" :> Leaf(<<None, I(7)>>) @@
            "crs" :> Leaf(<<None, I(3)>>)) @@
        "destination" :> Map(
            "_" :> Leaf(<<S(<<"d", "e", "s", "t", "i", "n", "a", "t", "i", "o", "n">>)>>) @@
            "name" :> Leaf(<<None, I(30)>>) @@
            "tiploc" :> Leaf(<<None, I(7)>>) @@
            "crs" :> Leaf(<<None, I(3)>>)))

\* BoardBuffer.__init__: self.format (lines 172-176)
BoardFormat ==
    <<<<"service", "uid">>, <<"service", "atoc_code">>, <<"service", "category">>,
    <<"service", "power_type">>, <<"service", "operating_characteristics">>, <<"service",
    "signalling_id">>, <<"arrival_scheduled", "short">>, <<"departure_scheduled", "short">>,
    <<"pass_scheduled", "short">>, <<"platform">>, <<"service", "current_variation">>,
    <<"arrival_actual", "short">>, <<"departure_actual", "short">>, <<"origin", "name">>,
    <<"destination", "name">>>>

\* ServiceBuffer.__init__: self.format (lines 332-335)
ServiceFormat ==
    <<<<"activity">>, <<"arrival_scheduled", "short">>, <<"departure_scheduled", "short">>,
    <<"pass_scheduled", "short">>, <<"service", "current_variation">>, <<"arrival_actual",
    "short">>, <<"trust_arrival", "source">>, <<"departure_actual", "short">>,
    <<"trust_departure", "source">>, <<"platform">>, <<"here", "tiploc">>, <<"here",
    "name">>>>


\* main: the schema and the format of the welcome TextBuffer (lines 524-525)
WelcomeSchema == Map("body" :> Leaf(<<S(<<"B", "o", "d", "y">>), I(4)>>))

WelcomeFormat == <<<<"body">>>>

\* "line {}".format(i)
WelcomeLine(i) == D("body" :> S(<<"l", "i", "n", "e", " ">> \o Digits(i)))

\* the rows main gives the welcome TextBuffer: range(1, 80) in the source, the
\* first WelcomeRows of them in the model
WelcomeRows == 3

WelcomeData == [schema |-> WelcomeSchema, rows |-> [i \in 1..WelcomeRows |-> WelcomeLine(i)]]

(***************************************************************************)
(* The data provider: get_board                                            *)
(*                                                                         *)
(* A database row is a record of the selected columns that a format or an  *)
(* override hook reads, named as get_board tags them.  Times are unix      *)
(* times; the local time zone is taken to be UTC.                          *)
(***************************************************************************)
TwoDigits(n) == <<Chr(48 + (n \div 10)), Chr(48 + (n % 10))>>

\* process_time(unix_time): the keys "ut" and "short" ("iso" and "date" are
\* read by neither format); "half" stands for the one character "1/2"
process_time(unix_time) ==
    IF ~Truthy(unix_time) THEN D([ut |-> None, short |-> S(<<>>)])
    ELSE LET sec == unix_time.n % 86400
             hm  == TwoDigits(sec \div 3600) \o TwoDigits((sec \div 60) % 60)
         IN  D([ut |-> unix_time,
                short |-> S(hm \o (IF sec % 60 = 30 THEN <<"half">> ELSE <<>>))])

RECURSIVE rstrip(_)
\* str.rstrip()
rstrip(s) == IF s # <<>> /\ s[Len(s)] = " " THEN rstrip(SubSeq(s, 1, Len(s) - 1)) ELSE s

\* the body of get_board's loop over the cursor (lines 300-325, 455-480)
BuildRow(c) ==
    D([arrival_scheduled   |-> process_time(c.arrival_scheduled),
       departure_scheduled |-> process_time(c.departure_scheduled),
       pass_scheduled      |-> process_time(c.pass_scheduled),
       arrival_actual      |-> process_time(c.arrival_actual),
       departure_actual    |-> process_time(c.departure_actual),
       platform |-> IF Truthy(c.platform) THEN S(rstrip(c.platform.s)) ELSE c.platform,
       activity |-> c.activity,
       trust_arrival |-> D([platform |-> c.ta_platform, variation_status |-> c.ta_variation_status,
                            variation |-> c.ta_variation, source |-> c.ta_source]),
       trust_departure |-> D([platform |-> c.td_platform, variation_status |-> c.td_variation_status,
                              variation |-> c.td_variation, source |-> c.td_source]),
       service |-> D([uid |-> c.uid, category |-> c.category, signalling_id |-> c.signalling_id,
                      power_type |-> c.power_type,
                      operating_characteristics |-> S(rstrip(c.operating_characteristics.s)),
                      atoc_code |-> c.atoc_code, actual_signalling_id |-> c.actual_signalling_id,
                      current_variation |-> c.current_variation]),
       here        |-> D([tiploc |-> c.here_tiploc, name |-> c.here_name]),
       origin      |-> D([tiploc |-> c.origin_tiploc, name |-> c.origin_name]),
       destination |-> D([tiploc |-> c.destination_tiploc, name |-> c.destination_name])])

\* get_board: the Data built from the rows the query returned
get_board(schema, cursor) == [schema |-> schema, rows |-> [i \in 1..Len(cursor) |-> BuildRow(cursor[i])]]

\* A database row: scheduled to leave at 12:00:00, left at 12:01:30, one minute late
LateRow ==
    [arrival_scheduled |-> I(43140),
     departure_scheduled |-> I(43200),
     pass_scheduled |-> None,
     arrival_actual |-> None,
     departure_actual |-> I(43290),
     platform |-> S(<<"2", " ">>),
     activity |-> S(<<"T">>),
     ta_platform |-> None,
     ta_variation_status |-> None,
     ta_variation |-> None,
     ta_source |-> None,
     td_platform |-> S(<<"3">>),
     td_variation_status |-> S(<<"L">>),
     td_variation |-> I(1),
     td_source |-> S(<<"A">>),
     uid |-> S(<<"W", "1", "2", "3", "4", "5">>),
     category |-> S(<<"X", "X">>),
     signalling_id |-> S(<<"1", "A", "2", "3">>),
     power_type |-> S(<<"D", "M", "U">>),
     operating_characteristics |-> S(<<"Q", " ", " ", " ">>),
     atoc_code |-> S(<<"G", "W">>),
     actual_signalling_id |-> S(<<"1", "A", "2", "4">>),
     current_variation |-> I(1),
     here_tiploc |-> S(<<"C", "R", "D", "F", "C", "E", "N">>),
     here_name |-> S(<<"C", "a", "r", "d", "i", "f", "f">>),
     origin_tiploc |-> S(<<"C", "R", "D", "F", "C", "E", "N">>),
     origin_name |-> S(<<"C", "a", "r", "d", "i", "f", "f">>),
     destination_tiploc |-> S(<<"P", "A", "D", "T", "O", "N">>),
     destination_name |-> S(<<"L", "o", "n", "d", "o", "n">>)]

\* the same service before it has been seen: no actual time, no movement record
UnseenRow ==
    [LateRow EXCEPT !.departure_actual = None, !.td_platform = None,
                    !.td_variation_status = None, !.td_variation = None, !.td_source = None,
                    !.actual_signalling_id = None, !.current_variation = None,
                    !.here_tiploc = S(<<"S", "W", "A", "N", "S", "E", "A">>),
                    !.here_name = S(<<"S", "w", "a", "n", "s", "e", "a">>)]

\* a late service whose stored current_variation is absent
LateNoStoredRow == [LateRow EXCEPT !.current_variation = None]

(***************************************************************************)
(* The Buffer classes.  A Buffer object is the record of its fields; a     *)
(* method maps the object to the object it leaves, with the exception it   *)
(* raised when it can raise.                                               *)
(***************************************************************************)
\* Buffer.__init__; the two dirty flags are first set by invalidate()
Buffer_init ==
    [cls |-> "Buffer", query |-> <<>>, data |-> [schema |-> Map(<<>>), rows |-> <<>>],
     format |-> <<>>, title |-> <<>>, line_offset |-> 0, lines |-> <<>>, col_names |-> <<>>,
     headers_outstanding |-> FALSE, body_outstanding |-> FALSE]

\* invalidate with its second assignment forgotten
invalidate_headers(self) == [self EXCEPT !.headers_outstanding = TRUE]

\* Buffer.invalidate
invalidate(self) == [self EXCEPT !.headers_outstanding = TRUE, !.body_outstanding = TRUE]

\* renew with the line of the last row not appended
Renewed_short(self, r) ==
    [exc |-> r.exc,
     self |-> [self EXCEPT !.col_names = r.col_names,
                           !.lines = SubSeq(r.lines, 1, Len(r.lines) - 1),
                           !.headers_outstanding = (r.exc = "") \/ @,
                           !.body_outstanding = (r.exc = "") \/ @]]

\* the object renew leaves: invalidate() is its last statement (line 105)
Renewed(self, r) ==
    [exc |-> r.exc,
     self |-> [self EXCEPT !.col_names = r.col_names, !.lines = r.lines,
                           !.headers_outstanding = (r.exc = "") \/ @,
                           !.body_outstanding = (r.exc = "") \/ @]]

\* Buffer.renew
Buffer_renew(self) == Renewed(self, renew(self.cls, self.data, self.format))

Max(a, b) == IF a > b THEN a ELSE b

Min(a, b) == IF a < b THEN a ELSE b

\* scroll_up that empties the cache of lines
scroll_up_clear(self, n) ==
    invalidate([self EXCEPT !.line_offset = Max(self.line_offset - n, 0), !.lines = <<>>])

\* Buffer.scroll_up
scroll_up(self, n) == invalidate([self EXCEPT !.line_offset = Max(self.line_offset - n, 0)])

\* scroll_down without its min(): the offset may pass the last line
scroll_down_unclamped(self, n) == invalidate([self EXCEPT !.line_offset = self.line_offset + n])

\* Buffer.scroll_down
scroll_down(self, n) ==
    invalidate([self EXCEPT !.line_offset = Min(self.line_offset + n, Len(self.lines))])

\* Buffer.position_summary: the three numbers it formats
position_summary(self, dim_lines) ==
    <<self.line_offset + 1, Min(self.line_offset + dim_lines, Len(self.lines)), Len(self.lines)>>

\* Buffer.render_headers: what it leaves of the object
render_headers(self) == [self EXCEPT !.headers_outstanding = FALSE]

\* Buffer.render: what it leaves of the object
render(self) == [self EXCEPT !.body_outstanding = FALSE]

\* TextBuffer.__init__
TextBuffer(title, data, format) ==
    Buffer_renew([Buffer_init EXCEPT !.cls = "Text", !.data = data, !.format = format,
                                     !.title = title])

\* the outcome of one query of the data provider: the rows of the cursor, or
\* the exception psycopg2 raised
QueryOk(cursor) == [exc |-> "", cursor |-> cursor]

QueryFailed == [exc |-> "OperationalError", cursor |-> <<>>]

\* BoardBuffer.refresh and ServiceBuffer.refresh: the title is set, then the
\* query is made, then renew() (lines 180-182, 339-341)
Live_refresh(self, schema, title, result) ==
    IF result.exc # "" THEN [exc |-> result.exc, self |-> [self EXCEPT !.title = title]]
    ELSE Buffer_renew([self EXCEPT !.title = title, !.data = get_board(schema, result.cursor)])

\* the title a live view formats: its text and its arguments
LiveTitle(cls, q) ==
    IF cls = "Board"
    THEN <<"STATION DEPARTURE BOARD ENQUIRY - {} {:%Y-%m-%d %H:%M:%S} - {} MINUTES",
           q.location_code, q.dt_start, q.duration>>
    ELSE <<"SERVICE ENQUIRY - {} on {:%Y-%m-%d}", q.service_code, q.date_start>>

\* self.refresh(), dispatched on the class of the Buffer
refresh(self, result) ==
    IF self.cls \in {"Board", "Service"}
    THEN Live_refresh(self, IF self.cls = "Board" THEN BoardSchema ELSE ServiceSchema,
                      LiveTitle(self.cls, self.query), result)
    ELSE [exc |-> "", self |-> invalidate(self)]

\* BoardBuffer.__init__ before its self.refresh(); dt_start is kept in minutes
\* from the moment of construction
BoardBuffer(dt_start, duration, location_code) ==
    [Buffer_init EXCEPT !.cls = "Board",
                        !.query = [dt_start |-> dt_start, duration |-> duration,
                                   location_code |-> location_code],
                        !.format = BoardFormat]

\* ServiceBuffer.__init__ before its self.refresh()
ServiceBuffer(date_start, service_code) ==
    [Buffer_init EXCEPT !.cls = "Service",
                        !.query = [date_start |-> date_start, service_code |-> service_code],
                        !.format = ServiceFormat]

(***************************************************************************)
(* Time.  The clock is counted in ticks, TicksPerSecond of them to the     *)
(* second; the state keeps the timedelta now - last_refreshed.             *)
(***************************************************************************)
TicksPerSecond == 2

Second == TicksPerSecond

Day == 86400 * Second

\* timedelta.seconds: the seconds field of the normalised timedelta, without
\* its days and its microseconds
Seconds(delta) == (delta % Day) \div Second

\* the staleness threshold of consider_refresh
Threshold == 30

\* the test of consider_refresh with twice its threshold
StaleLate(delta) == Seconds(delta) > 2 * Threshold

\* the test of Buffer.consider_refresh
Stale(delta) == Seconds(delta) > Threshold

\* Buffer.consider_refresh: the object and the timedelta it leaves
consider_refresh(self, delta, result) ==
    IF Stale(delta)
    THEN refresh(self, result) @@ [age |-> 0]
    ELSE [exc |-> "", self |-> self, age |-> delta]

(***************************************************************************)
(* The compose line of main(): editing and the two commands                *)
(***************************************************************************)
\* curses key codes, and what getch() returns when the half-delay runs out
KEY_DOWN == 258

KEY_UP == 259

KEY_LEFT == 260

KEY_RIGHT == 261

KEY_BACKSPACE == 263

KEY_DC == 330

KEY_ENTER == 343

KEY_LF == 10

KEY_RESIZE == 410

ERR == -1

\* 0x20 <= k <= 0x7E
Printable(key) == 32 <= key /\ key <= 126

\* the branch of KEY_BACKSPACE with its "cursor_pos -= 1" forgotten
BackspaceStay(c, p) ==
    IF p # 0 THEN [compose |-> Take(c, p - 1) \o Drop(c, p), cursor_pos |-> p]
    ELSE [compose |-> c, cursor_pos |-> p]

\* the branch of KEY_BACKSPACE (lines 571-573)
Backspace(c, p) ==
    IF p # 0 THEN [compose |-> Take(c, p - 1) \o Drop(c, p), cursor_pos |-> p - 1]
    ELSE [compose |-> c, cursor_pos |-> p]

\* the branch of 0x14A, the delete key (lines 575-576)
DeleteChar(c, p) ==
    IF p # 0 THEN [compose |-> Take(c, p) \o Drop(c, p + 1), cursor_pos |-> p]
    ELSE [compose |-> c, cursor_pos |-> p]

\* the branch of KEY_LEFT (line 578)
CursorLeft(c, p) == [compose |-> c, cursor_pos |-> Max(p - 1, 0)]

\* the branch of KEY_RIGHT (line 580)
CursorRight(c, p) == [compose |-> c, cursor_pos |-> Min(p + 1, Len(c))]

\* whether the insert branch inserts (line 598)
InsertFits(p, cols) == p < cols - 1

\* the branch of a printable key (lines 598-602)
Insert(c, p, key, cols) ==
    IF InsertFits(p, cols)
    THEN [compose |-> Take(c, p) \o <<Chr(key)>> \o Drop(c, p), cursor_pos |-> p + 1, beep |-> FALSE]
    ELSE [compose |-> c, cursor_pos |-> p, beep |-> TRUE]

RECURSIVE Split(_, _)
\* s.split(sep) for a one-character sep
Split(s, sep) ==
    IF \E i \in 1..Len(s) : s[i] = sep
    THEN LET i == CHOOSE j \in 1..Len(s) : s[j] = sep /\ \A h \in 1..(j - 1) : s[h] # sep
         IN  <<Take(s, i - 1)>> \o Split(Drop(s, i), sep)
    ELSE <<s>>

AllNumeric(s) == \A i \in 1..Len(s) : IsNumeric(s[i])

RECURSIVE Number(_)
\* int(s) of a string of digits
Number(s) == IF s = <<>> THEN 0 ELSE 10 * Number(Take(s, Len(s) - 1)) + (Ord(s[Len(s)]) - 48)

DaysInMonth(y, m) ==
    IF m = 2 THEN (IF (y % 4 = 0 /\ y % 100 # 0) \/ y % 400 = 0 THEN 29 ELSE 28)
    ELSE IF m \in {4, 6, 9, 11} THEN 30 ELSE 31

\* the date the three fields make, when .date() accepts them
DateOf(y, m, d) ==
    IF y >= 1 /\ m \in 1..12 /\ d >= 1 /\ d <= DaysInMonth(y, m)
    THEN [exc |-> "", date |-> <<y, m, d>>]
    ELSE [exc |-> "ValueError", date |-> <<>>]

\* the fields of "%Y-%m-%d": %Y is four digits, %m and %d one or two
FieldsOf(f) ==
    IF /\ Len(f) = 3
       /\ Len(f[1]) = 4 /\ Len(f[2]) \in {1, 2} /\ Len(f[3]) \in {1, 2}
       /\ \A i \in 1..3 : AllNumeric(f[i])
    THEN DateOf(Number(f[1]), Number(f[2]), Number(f[3]))
    ELSE [exc |-> "ValueError", date |-> <<>>]

\* datetime.datetime.strptime(s, "%Y-%m-%d").date() (s holds no space: it is
\* an item of compose.split(" "))
strptime(s) == FieldsOf(Split(s, "-"))

trjd == <<"t", "r", "j", "d", " ">>

uid == <<"u", "i", "d", " ">>

\* the arguments of the two constructors with the ".upper()" of lines 586 and
\* 590 forgotten
CommandOfRaw(view, words) ==
    IF view = "Board"
    THEN [exc |-> "", view |-> "Board", code |-> words[2], date |-> <<>>]
    ELSE IF view = ""
    THEN [exc |-> "", view |-> "", code |-> <<>>, date |-> <<>>]
    ELSE IF Len(words) < 3
    THEN [exc |-> "IndexError", view |-> "", code |-> <<>>, date |-> <<>>]
    ELSE [code |-> words[2], view |-> "Service"] @@ strptime(words[3])

\* the arguments of strptime and of the two constructors (lines 586, 590-591)
CommandOf(view, words) ==
    IF view = "Board"
    THEN [exc |-> "", view |-> "Board", code |-> Upper(words[2]), date |-> <<>>]
    ELSE IF view = ""
    THEN [exc |-> "", view |-> "", code |-> <<>>, date |-> <<>>]
    ELSE IF Len(words) < 3
    THEN [exc |-> "IndexError", view |-> "", code |-> <<>>, date |-> <<>>]
    ELSE [code |-> Upper(words[2]), view |-> "Service"] @@ strptime(words[3])

\* which command compose starts with (lines 585, 589)
ViewOf(lowered) ==
    IF StartsWith(lowered, trjd) THEN "Board"
    ELSE IF StartsWith(lowered, uid) THEN "Service"
    ELSE ""

\* the command the Enter branch reads in compose (lines 585-592): the view to
\* build and its arguments, or the exception the parse raised
ParseCommand(c) == CommandOf(ViewOf(Lower(c)), Split(c, " "))

\* the object the constructor of the command's view leaves before it calls
\* refresh(): a board from ten minutes ago, 120 minutes long, or a service
NewView(cmd) ==
    IF cmd.view = "Board" THEN BoardBuffer(-10, 120, cmd.code)
    ELSE ServiceBuffer(cmd.date, cmd.code)

\* the constructor has returned, or has raised and left the old Buffer
Assigned(old, b) ==
    [exc |-> b.exc, self |-> IF b.exc = "" THEN b.self ELSE old, built |-> b.exc = ""]

\* the Buffer the Enter branch leaves in current_buffer (lines 585-592), cmd
\* what it read in compose
SubmittedOf(cmd, old, result) ==
    IF cmd.exc # "" THEN [exc |-> cmd.exc, self |-> old, built |-> FALSE]
    ELSE IF cmd.view = "" THEN [exc |-> "", self |-> old, built |-> FALSE]
    ELSE Assigned(old, refresh(NewView(cmd), result))

\* the outcomes of the query the command makes; it makes none when it builds
\* no view, and then the outcome read is never used
QueryOf(cmd, results) == IF cmd.exc = "" /\ cmd.view # "" THEN results ELSE {QueryFailed}

(***************************************************************************)
(* What the environment supplies: keys, terminal widths, the time that     *)
(* passes while getch() waits, and the rows the data provider returns      *)
(***************************************************************************)
\* the longest compose line the model lets the operator type
MaxCompose == 3

\* the most rows a query returns
MaxRows == 2

\* the most whole days the clock runs on between two refreshes
MaxDays == 1

\* the width of the terminal the commands are typed on
WideCols == 132

\* terminal widths a resize leaves
Widths == {3, 4}

\* the printable keys the operator types: "q", "t"
TypedKeys == {113, 116}

\* how long getch() waits for its key, from none at all to a process stopped
\* for a day, in ticks
Elapses == {0, Threshold * Second + 1, Day}

\* the rows of the database, in the order the queries sort them
DbRows == <<LateRow, UnseenRow, LateNoStoredRow>>

\* the rows of DbRows numbered in picked, in their order
Cursor(picked) ==
    [j \in 1..Cardinality(picked) |->
        DbRows[CHOOSE i \in picked : Cardinality({h \in picked : h < i}) = j - 1]]

\* the cursors of at most n rows
Cursors(n) == {Cursor(picked) : picked \in {x \in SUBSET (1..Len(DbRows)) : Cardinality(x) <= n}}

\* compose lines the operator has typed when Enter is pressed
TrjdCdf == <<"t", "r", "j", "d", " ", "c", "d", "f">>

TrjdBare == <<"t", "r", "j", "d", " ">>

UidDated == <<"u", "i", "d", " ", "W", "1", "2", "3", "4", "5", " ", "2", "0", "2", "4", "-", "0", "3", "-", "0", "1">>

UidNoDate == <<"u", "i", "d", " ", "W", "1", "2", "3", "4", "5">>

UidBadDate == <<"u", "i", "d", " ", "W", "1", "2", "3", "4", "5", " ", "n", "o", "t", "a", "d", "a", "t", "e">>

Banana == <<"b", "a", "n", "a", "n", "a">>

\* those of them that start with neither command, or with "uid " and lack a
\* date that can be read
Unrecognized == {UidNoDate, UidBadDate, Banana}

\* with the two commands in other letter cases: "TRJD cdf" and
\* "Uid w12345 2024-03-01"
Commands ==
    {TrjdCdf, TrjdBare, UidDated} \cup Unrecognized
        \cup {<<"T", "R", "J", "D", " ", "c", "d", "f">>,
              <<"U", "i", "d", " ", "w", "1", "2", "3", "4", "5", " ", "2", "0", "2", "4", "-", "0", "3", "-", "0", "1">>}

\* the outcomes of a query
Results == {QueryFailed} \cup {QueryOk(c) : c \in Cursors(MaxRows)}

(***************************************************************************)
(* main(): one action for each step of the loop body                       *)
(***************************************************************************)
Welcome == [title |-> <<"Welcome to BeryilliumSwallow">>, data |-> WelcomeData,
            format |-> WelcomeFormat]

\* main() up to the loop (lines 517-526), the terminal as wide as the operating
\* system made it
Init ==
    /\ pc = "start"
    /\ exc = ""
    /\ text_entry_mode = FALSE
    /\ compose = <<>>
    /\ cursor_pos = 0
    /\ k = 0
    /\ win_cols \in Widths
    /\ beeped = FALSE
    /\ current_buffer = Buffer_init
    /\ age = 0

\* an exception leaves main(): the loop is over
Raise(e) == pc' = "raised" /\ exc' = e

\* current_buffer = TextBuffer(...) (lines 522-526)
Construct(args) ==
    /\ pc = "start"
    /\ \E b \in {TextBuffer(args.title, args.data, args.format)} :
          IF b.exc # ""
          THEN Raise(b.exc) /\ UNCHANGED current_buffer
          ELSE pc' = "tick" /\ current_buffer' = b.self /\ UNCHANGED exc
    /\ UNCHANGED <<text_entry_mode, compose, cursor_pos, k, win_cols, beeped, age>>

\* current_buffer.consider_refresh() (line 533); a query is made only by a
\* live view that is stale
ConsiderRefresh(results) ==
    /\ pc = "tick"
    /\ \E result \in (IF Stale(age) /\ current_buffer.cls # "Text" THEN results ELSE {QueryFailed}) :
          \E r \in {consider_refresh(current_buffer, age, result)} :
              /\ current_buffer' = r.self
              /\ age' = r.age
              /\ IF r.exc # "" THEN Raise(r.exc) ELSE pc' = "render" /\ UNCHANGED exc
    /\ UNCHANGED <<text_entry_mode, compose, cursor_pos, k, win_cols, beeped>>

\* render_headers and render (lines 543-549)
RenderPass ==
    /\ pc = "render"
    /\ pc' = "poll"
    /\ current_buffer' = render(render_headers(current_buffer))
    /\ UNCHANGED <<exc, text_entry_mode, compose, cursor_pos, k, win_cols, beeped, age>>

\* k = stdscr.getch() returns key after d ticks (line 564)
Getch(key, d) ==
    /\ pc = "poll"
    /\ d \in Elapses
    /\ d >= Day => age < MaxDays * Day
    /\ k' = key

\* the loop goes round: the timedelta since last_refreshed, the editor and the
\* Buffer the dispatch of the key leaves
Dispatched(elapsed, mode, edit, beep, buffer) ==
    /\ pc' = "tick"
    /\ text_entry_mode' = mode
    /\ compose' = edit.compose
    /\ cursor_pos' = edit.cursor_pos
    /\ beeped' = beep
    /\ current_buffer' = buffer
    /\ age' = elapsed
    /\ UNCHANGED exc

Unedited == [compose |-> compose, cursor_pos |-> cursor_pos]

\* KEY_RESIZE (lines 565-567); no branch of either mode takes the key
KeyResize(widths) ==
    \E w \in widths, d \in Elapses :
        /\ Getch(KEY_RESIZE, d)
        /\ win_cols' = w
        /\ Dispatched(age + d, text_entry_mode, Unedited, FALSE, invalidate(current_buffer))

EntryBackspace ==
    \E d \in Elapses :
        /\ text_entry_mode
        /\ Getch(KEY_BACKSPACE, d)
        /\ Dispatched(age + d, TRUE, Backspace(compose, cursor_pos), FALSE, current_buffer)
        /\ UNCHANGED win_cols

EntryDelete ==
    \E d \in Elapses :
        /\ text_entry_mode
        /\ Getch(KEY_DC, d)
        /\ Dispatched(age + d, TRUE, DeleteChar(compose, cursor_pos), FALSE, current_buffer)
        /\ UNCHANGED win_cols

EntryLeft ==
    \E d \in Elapses :
        /\ text_entry_mode
        /\ Getch(KEY_LEFT, d)
        /\ Dispatched(age + d, TRUE, CursorLeft(compose, cursor_pos), FALSE, current_buffer)
        /\ UNCHANGED win_cols

EntryRight ==
    \E d \in Elapses :
        /\ text_entry_mode
        /\ Getch(KEY_RIGHT, d)
        /\ Dispatched(age + d, TRUE, CursorRight(compose, cursor_pos), FALSE, current_buffer)
        /\ UNCHANGED win_cols

\* a printable key in Entry mode (lines 597-602)
EntryInsert(keys) ==
    \E key \in keys, d \in Elapses :
        /\ text_entry_mode
        /\ Printable(key)
        /\ Len(compose) < MaxCompose
        /\ Getch(key, d)
        /\ \E e \in {Insert(compose, cursor_pos, key, win_cols)} :
              Dispatched(age + d, TRUE, e, e.beep, current_buffer)
        /\ UNCHANGED win_cols

\* Enter in Entry mode (lines 584-596)
EntrySubmit(results) ==
    \E key \in {KEY_ENTER, KEY_LF}, d \in Elapses :
        /\ text_entry_mode
        /\ Getch(key, d)
        /\ \E cmd \in {ParseCommand(compose)} :
           \E result \in QueryOf(cmd, results) :
           \E s \in {SubmittedOf(cmd, current_buffer, result)} :
              IF s.exc # ""
              THEN /\ Raise(s.exc)
                   /\ age' = age + d
                   /\ UNCHANGED <<text_entry_mode, compose, cursor_pos, beeped, current_buffer>>
              ELSE Dispatched(IF s.built THEN 0 ELSE age + d, FALSE,
                              [compose |-> <<>>, cursor_pos |-> 0], FALSE, s.self)
        /\ UNCHANGED win_cols

\* a key no branch of Entry mode takes: the time-out, the scroll keys
EntryOther ==
    \E key \in {ERR, KEY_UP, KEY_DOWN}, d \in Elapses :
        /\ text_entry_mode
        /\ Getch(key, d)
        /\ Dispatched(age + d, TRUE, Unedited, FALSE, current_buffer)
        /\ UNCHANGED win_cols

\* "t" or ":" in Navigation mode (lines 604-605)
NavBegin ==
    \E key \in {116, 58}, d \in Elapses :
        /\ ~text_entry_mode
        /\ Getch(key, d)
        /\ Dispatched(age + d, TRUE, Unedited, FALSE, current_buffer)
        /\ UNCHANGED win_cols

\* "q" in Navigation mode (lines 606-607)
NavQuit ==
    \E d \in Elapses :
        /\ ~text_entry_mode
        /\ Getch(113, d)
        /\ pc' = "quit"
        /\ age' = age + d
        /\ UNCHANGED <<exc, text_entry_mode, compose, cursor_pos, win_cols, beeped, current_buffer>>

\* KEY_DOWN in Navigation mode (lines 608-609)
NavDown ==
    \E d \in Elapses :
        /\ ~text_entry_mode
        /\ Getch(KEY_DOWN, d)
        /\ Dispatched(age + d, FALSE, Unedited, FALSE, scroll_down(current_buffer, 1))
        /\ UNCHANGED win_cols

\* KEY_UP in Navigation mode (lines 610-611)
NavUp ==
    \E d \in Elapses :
        /\ ~text_entry_mode
        /\ Getch(KEY_UP, d)
        /\ Dispatched(age + d, FALSE, Unedited, FALSE, scroll_up(current_buffer, 1))
        /\ UNCHANGED win_cols

\* a key no branch of Navigation mode takes: the time-out, the editing keys
NavOther ==
    \E key \in {ERR, KEY_LEFT, KEY_ENTER}, d \in Elapses :
        /\ ~text_entry_mode
        /\ Getch(key, d)
        /\ Dispatched(age + d, FALSE, Unedited, FALSE, current_buffer)
        /\ UNCHANGED win_cols

\* main() from its start, the operator typing "q" and "t" on a narrow terminal
Next ==
    \/ Construct(Welcome)
    \/ ConsiderRefresh(Results)
    \/ RenderPass
    \/ KeyResize(Widths)
    \/ EntryBackspace
    \/ EntryDelete
    \/ EntryLeft
    \/ EntryRight
    \/ EntryInsert(TypedKeys)
    \/ EntrySubmit(Results)
    \/ EntryOther
    \/ NavBegin
    \/ NavQuit
    \/ NavDown
    \/ NavUp
    \/ NavOther

Spec == Init /\ [][Next]_vars

(***************************************************************************)
(* The live views: main() at getch(), a command typed on the compose line  *)
(* of a wide terminal, the welcome TextBuffer drawn                        *)
(***************************************************************************)
Drawn(b) == render(render_headers(b.self))

LiveInit ==
    /\ pc = "poll"
    /\ exc = ""
    /\ text_entry_mode = TRUE
    /\ compose \in Commands
    /\ cursor_pos = Len(compose)
    /\ k = Ord(compose[Len(compose)])
    /\ win_cols = WideCols
    /\ beeped = FALSE
    /\ current_buffer = Drawn(TextBuffer(Welcome.title, Welcome.data, Welcome.format))
    /\ age = 0

\* Enter, then the keys of Navigation mode and the idle loop
LiveNext ==
    \/ ConsiderRefresh(Results)
    \/ RenderPass
    \/ KeyResize({WideCols})
    \/ EntrySubmit(Results)
    \/ EntryOther
    \/ NavBegin
    \/ NavQuit
    \/ NavDown
    \/ NavUp
    \/ NavOther

SpecLive == LiveInit /\ [][LiveNext]_vars

(***************************************************************************)
(* The idle loop: after the command typed is submitted no key comes, and   *)
(* getch() returns ERR when its half-delay of a second runs out            *)
(* (curses.halfdelay(10), line 489)                                        *)
(***************************************************************************)
\* getch() times out: an iteration takes about a second
Idle ==
    \E d \in {Second - 1, Second, Second + 1} :
        /\ pc = "poll"
        /\ k' = ERR
        /\ Dispatched(age + d, text_entry_mode, Unedited, FALSE, current_buffer)
        /\ UNCHANGED win_cols

IdleNext ==
    \/ EntrySubmit(Results)
    \/ ConsiderRefresh(Results)
    \/ RenderPass
    \/ Idle

\* the loop is sequential code: the query of consider_refresh returns or
\* raises, the render pass ends, and getch() returns within its half-delay.
\* consider_refresh and the render pass can always be taken where main() is
\* at them, so weak fairness of each is that main() does not stay there.
SpecIdle ==
    /\ LiveInit
    /\ [][IdleNext]_vars
    /\ []<>(pc # "tick")
    /\ []<>(pc # "render")
    /\ WF_vars(Idle)

(***************************************************************************)
(* TextBuffer given other schemas and formats than the welcome one         *)
(***************************************************************************)
\* a format whose path is no key of the schema
UnknownPath == [Welcome EXCEPT !.format = <<<<"nobody">>>>]

\* a format whose path stops at an interior node of the schema
InteriorPath == [Welcome EXCEPT !.data.schema = Map("body" :> WelcomeSchema)]

\* a leaf that has no width, under no "_" entry that gives one
NoWidth == [Welcome EXCEPT !.data.schema = Map("body" :> Leaf(<<S(<<"B", "o", "d", "y">>), None>>))]

\* a leaf that takes its width from the "_" entry of its parent
InheritedWidth ==
    [Welcome EXCEPT !.data.schema = Map("_" :> Leaf(<<None, I(6)>>) @@
                                        "body" :> Leaf(<<S(<<"B", "o", "d", "y">>), None>>))]

TextSamples == {Welcome, UnknownPath, InteriorPath, NoWidth, InheritedWidth}

SchemaNext ==
    \/ \E args \in TextSamples : Construct(args)
    \/ ConsiderRefresh({QueryFailed})
    \/ RenderPass
    \/ KeyResize(Widths)
    \/ NavQuit
    \/ NavDown
    \/ NavUp
    \/ NavOther

SpecSchema == Init /\ [][SchemaNext]_vars

(***************************************************************************)
(* The Buffer classes on their own: an object whose fields have been       *)
(* assigned, renew() called on it, then its methods called in any order    *)
(* with any argument                                                       *)
(***************************************************************************)
\* the longest cell text given to a justify function of a schema
MaxText == 3

\* a TextBuffer over a schema of two interior nodes and a leaf: the root's "_"
\* entry, the "_" entry of "grp" under it, and the leaf "grp/leaf", each slot
\* of each of them set or left None; one row, its cell "ab"
NestedObjects ==
    {[Buffer_init EXCEPT
         !.cls = "Text", !.title = <<"Nested">>, !.format = <<<<"grp", "leaf">>>>,
         !.data = [schema |-> Map("_" :> Leaf(<<an, aw, aj, ac>>) @@
                                  "grp" :> Map("_" :> Leaf(<<None, bw, None, bc>>) @@
                                               "leaf" :> Leaf(<<ln, lw, lj, lc>>))),
                   rows |-> <<D("grp" :> D("leaf" :> S(<<"a", "b">>)))>>]] :
       an \in {None, S(<<"A", "n">>)}, aw \in {None, I(5)}, aj \in {None, F("rjust")},
       ac \in {None, I(0), I(3)},
       bw \in {None, I(9)}, bc \in {None, I(7)},
       ln \in {None, S(<<"L", "f">>)}, lw \in {None, I(4)}, lj \in {None, F("ljust")},
       lc \in {None, I(0), I(7)}}

\* a TextBuffer whose one column is justified by platform_justify, as the
\* "platform" column of both live views is (lines 241, 381): every text of at
\* most MaxText characters, and the widths about 3
PlatformObjects ==
    {[Buffer_init EXCEPT
         !.cls = "Text", !.title = <<"Platform">>, !.format = <<<<"platform">>>>,
         !.data = [schema |-> Map("platform" :> Leaf(<<S(<<"P", "t">>), I(w), F("platform_justify")>>)),
                   rows |-> <<D("platform" :> S(s))>>]] :
       w \in {2, 3, 4}, s \in UNION {[1..m -> {"3", "R", " "}] : m \in 0..MaxText}}

\* rows of the database beside DbRows: not yet seen, with a stored estimate of
\* two minutes; no scheduled platform; the movement
\* reported on arrival only; off route; an actual time and no status on
\* either record; an actual time and an empty status on both
CellRows ==
    {LateRow, UnseenRow, LateNoStoredRow,
     [UnseenRow EXCEPT !.current_variation = I(2)],
     [LateRow EXCEPT !.platform = None],
     [LateRow EXCEPT !.td_platform = None, !.td_variation_status = None, !.td_variation = None,
                     !.td_source = None, !.departure_actual = None, !.arrival_actual = I(43260),
                     !.ta_platform = S(<<"4", "A">>), !.ta_variation_status = S(<<"E">>),
                     !.ta_variation = I(2), !.ta_source = S(<<"A">>)],
     [LateRow EXCEPT !.td_variation_status = S(<<"O">>)],
     [LateRow EXCEPT !.td_variation_status = None, !.td_variation = None],
     [LateRow EXCEPT !.td_variation_status = S(<<>>), !.ta_variation_status = S(<<>>),
                     !.ta_variation = I(1)]}

\* a BoardBuffer and a ServiceBuffer in refresh(), the query answered with one
\* row, before renew() (lines 180-181, 339-340)
LiveObjects ==
    {[b EXCEPT !.title = LiveTitle(b.cls, b.query),
               !.data = get_board(IF b.cls = "Board" THEN BoardSchema ELSE ServiceSchema, <<c>>)] :
       b \in {BoardBuffer(-10, 120, <<"C", "D", "F">>),
              ServiceBuffer(<<2024, 3, 1>>, <<"W", "1", "2", "3", "4", "5">>)},
       c \in CellRows}

\* the fields assigned, renew() not yet called
BufferInit ==
    /\ pc = "renew"
    /\ exc = ""
    /\ text_entry_mode = FALSE
    /\ compose = <<>>
    /\ cursor_pos = 0
    /\ k = 0
    /\ win_cols = WideCols
    /\ beeped = FALSE
    /\ current_buffer \in NestedObjects \cup PlatformObjects \cup LiveObjects
                          \cup {[Buffer_init EXCEPT !.cls = "Text", !.title = Welcome.title,
                                                    !.data = Welcome.data, !.format = Welcome.format]}
    /\ age = 0

\* self.renew()
Renew ==
    /\ pc = "renew"
    /\ \E r \in {Buffer_renew(current_buffer)} :
          /\ current_buffer' = r.self
          /\ IF r.exc # "" THEN Raise(r.exc) ELSE pc' = "api" /\ UNCHANGED exc
    /\ UNCHANGED <<text_entry_mode, compose, cursor_pos, k, win_cols, beeped, age>>

\* scroll_up(n) or scroll_down(n)
Scroll(steps) ==
    /\ pc = "api"
    /\ \E n \in steps :
          \/ current_buffer' = scroll_up(current_buffer, n)
          \/ current_buffer' = scroll_down(current_buffer, n)
    /\ UNCHANGED <<pc, exc, text_entry_mode, compose, cursor_pos, k, win_cols, beeped, age>>

\* render_headers(window) or render(window)
Draw ==
    /\ pc = "api"
    /\ \/ current_buffer' = render_headers(current_buffer)
       \/ current_buffer' = render(current_buffer)
    /\ UNCHANGED <<pc, exc, text_entry_mode, compose, cursor_pos, k, win_cols, beeped, age>>

BufferNext ==
    \/ Renew
    \/ Scroll({0, 1, 2, 1000})
    \/ Draw

SpecBuffer == BufferInit /\ [][BufferNext]_vars

(***************************************************************************)
(* The claims of the specification                                         *)
(***************************************************************************)
\* C1: every cell renew() has produced for the Buffer being rendered is
\* exactly as long as the width its column resolves to, whatever the length
\* of the value.  Refuted by the welcome TextBuffer of main: "line 1" has six
\* characters in a column of width 4, and str.ljust does not cut.
C1_WidthInvariant ==
    \A i \in 1..Len(current_buffer.lines) :
        \A j \in 1..Len(current_buffer.lines[i]) :
            Len(current_buffer.lines[i][j].text)
                = Width(current_buffer.data.schema, current_buffer.format[j])

\* C2: in every state 0 <= line_offset <= the number of rows the Buffer
\* holds, also after a refresh of a live view that returned fewer rows.
\* Refuted: renew() replaces the lines and leaves line_offset as it was.
C2_ScrollOffset ==
    /\ 0 <= current_buffer.line_offset
    /\ current_buffer.line_offset <= Len(current_buffer.lines)

\* C3: consider_refresh records now as last_refreshed (and refreshes) when the
\* time elapsed since last_refreshed is more than 30 seconds, whatever its
\* length and its fraction of a second, and leaves last_refreshed alone when
\* it is 30 seconds or less.  Refuted: timedelta.seconds has neither the
\* microseconds nor the days of the elapsed time.
C3_RefreshCadence ==
    [][pc = "tick" => IF age > Threshold * Second THEN age' = 0 ELSE age' = age]_vars

\* C4: Enter on a compose line that is no complete "trjd <CODE>" or
\* "uid <ID> <YYYY-MM-DD>" leaves the active Buffer as it was, raises nothing
\* and does not end the loop.  Refuted: "uid W12345" raises IndexError and
\* "uid W12345 notadate" raises ValueError.
C4_UnrecognizedNoOp ==
    [][(pc = "poll" /\ text_entry_mode /\ k' \in {KEY_ENTER, KEY_LF} /\ compose \in Unrecognized)
          => (current_buffer' = current_buffer /\ exc' = "" /\ pc' = "tick")]_vars

\* C5: in Navigation mode compose is empty and the cursor is at 0, and every
\* Enter in Entry mode, recognized or not, ends in Navigation mode with compose
\* cleared and the cursor at 0.  Refuted in its second half: an Enter that
\* raises leaves main() before lines 594-596.
C5_NavigationCompose ==
    /\ [](~text_entry_mode => (compose = <<>> /\ cursor_pos = 0))
    /\ [][(pc = "poll" /\ text_entry_mode /\ k' \in {KEY_ENTER, KEY_LF})
             => (~text_entry_mode' /\ compose' = <<>> /\ cursor_pos' = 0)]_vars

\* C6: a query that fails in the refresh() consider_refresh has called does
\* not end the loop, and leaves the data and the lines of the Buffer as they
\* were.  Refuted: nothing catches the exception of the query.
C6_ProviderFailure ==
    [][(pc = "tick" /\ exc' = "OperationalError")
          => /\ pc' = "render"
             /\ current_buffer'.data = current_buffer.data
             /\ current_buffer'.lines = current_buffer.lines]_vars

\* C7: in a Board View and in a Service View, the "service/current_variation"
\* cell of a row with an actual time whose chosen movement record has status
\* "E" or "L" is "<variation><status>" right-justified to width 3, in color 3,
\* whatever the row's stored current_variation, None included.  Refuted: the
\* hook returns color 5, and renew() empties the text when the stored value
\* is None.
C7_VarianceDisplay ==
    \A i \in 1..Len(current_buffer.lines) :
        \A j \in 1..Len(current_buffer.lines[i]) :
            (/\ current_buffer.cls \in {"Board", "Service"}
             /\ current_buffer.format[j] = <<"service", "current_variation">>
             /\ HasActual(current_buffer.data.rows[i])
             /\ Movement(current_buffer.data.rows[i]).d["variation_status"].t = "str"
             /\ Movement(current_buffer.data.rows[i]).d["variation_status"].s \in {<<"E">>, <<"L">>})
            => current_buffer.lines[i][j]
                  = [text |-> rjust(Str(Movement(current_buffer.data.rows[i]).d["variation"])
                                       \o Movement(current_buffer.data.rows[i]).d["variation_status"].s, 3),
                     color |-> 3]

\* C8: at a fixed terminal width, a printable key in Entry mode never makes a
\* compose line that fits in win_cols - 1 columns longer than that; the key
\* that would is rejected with a beep and changes neither compose nor the
\* cursor.  Refuted: line 598 compares the cursor, not the length of compose.
C8_InsertOverflow ==
    [][(pc = "poll" /\ text_entry_mode /\ Printable(k') /\ win_cols' = win_cols
            /\ Len(compose) <= win_cols - 1)
          => /\ Len(compose') <= win_cols - 1
             /\ (Len(compose) = win_cols - 1
                    => (beeped' /\ compose' = compose /\ cursor_pos' = cursor_pos /\ pc' = "tick"))]_vars

\* C9: a display path that resolves to no leaf of the schema, or a leaf that
\* gets no width, fails with a SchemaError that stays in the view: main()
\* goes on into its loop.  Refuted: KeyError and TypeError leave renew(), the
\* constructor and main().
C9_SchemaErrorConfined ==
    [][pc = "start" => (pc' = "tick" /\ exc' \in {"", "SchemaError"})]_vars

\* C10: in Entry mode, after any insert, backspace, delete, cursor-left,
\* cursor-right, resize and idle tick, 0 <= cursor_pos <= len(compose).
C10_EntryCursor ==
    text_entry_mode => (0 <= cursor_pos /\ cursor_pos <= Len(compose))

\* C10: Entry mode just after a backspace that took the character before the
\* cursor out of the middle of compose
C10_Witness ==
    /\ text_entry_mode
    /\ pc = "tick"
    /\ k = KEY_BACKSPACE
    /\ 0 < cursor_pos
    /\ cursor_pos < Len(compose)

\* C11: Enter on "trjd cdf" in any letter case makes the active Buffer a Board
\* View for "CDF" that starts ten minutes before now and lasts 120 minutes;
\* Enter on "uid W12345 2024-03-01" in any letter case makes it a Service View
\* for "W12345" on 2024-03-01 (when the constructor returns, that is, when
\* its query is answered).
C11_CommandConstruction ==
    [][(pc = "poll" /\ text_entry_mode /\ k' \in {KEY_ENTER, KEY_LF} /\ exc' = "")
          => /\ Lower(compose) = TrjdCdf
                  => /\ current_buffer'.cls = "Board"
                     /\ current_buffer'.query
                           = [dt_start |-> -10, duration |-> 120,
                              location_code |-> <<"C", "D", "F">>]
             /\ Lower(compose) = Lower(UidDated)
                  => /\ current_buffer'.cls = "Service"
                     /\ current_buffer'.query
                           = [date_start |-> <<2024, 3, 1>>,
                              service_code |-> <<"W", "1", "2", "3", "4", "5">>]]_vars

\* C11: Enter has just replaced the welcome TextBuffer by a Service View
C11_Witness ==
    /\ pc = "tick"
    /\ k \in {KEY_ENTER, KEY_LF}
    /\ ~text_entry_mode
    /\ current_buffer.cls = "Service"
    /\ current_buffer.query.service_code = <<"W", "1", "2", "3", "4", "5">>

\* C12: among the ancestors of a leaf, for each slot (name, width, justify,
\* color) the inherited value is the one of the shallowest interior node that
\* sets the slot, and the header pass and the cell pass of renew() give the
\* column the same width.  Checked on the cell and the header renew() made
\* for a leaf that leaves the slot unset.  Refuted by a root "_" entry of
\* color 0 over a deeper one of color 7: the cell has color 7.
C12_InheritedPrecedence ==
    (pc = "api" /\ current_buffer.title = <<"Nested">>) =>
        LET root == current_buffer.data.schema.map["_"].tup
            grp  == current_buffer.data.schema.map["grp"].map["_"].tup
            leaf == current_buffer.data.schema.map["grp"].map["leaf"].tup
            cell == current_buffer.lines[1][1]
            head == current_buffer.col_names[1]
            Shallowest(i) == IF root[i] # None THEN root[i] ELSE grp[i]
        IN  /\ Len(head.text) = Len(cell.text)
            /\ leaf[2] = None => Len(cell.text) = Shallowest(2).n
            /\ leaf[1] = None => head.text = center(Take(Shallowest(1).s, Len(head.text)), Len(head.text))
            /\ (leaf[3] = None /\ Shallowest(3) = F("rjust")) => cell.text = rjust(<<"a", "b">>, Len(cell.text))
            /\ (leaf[4] = None /\ Shallowest(4) # None) => cell.color = Shallowest(4).n

\* C13: a slot the leaf sets resolves to the leaf's value whatever the "_"
\* entries above it hold; a slot the leaf leaves unset resolves to a value
\* inherited from them, and with nothing inherited the color is 0 and the
\* text is left-justified.  Refuted by a leaf of color 0 under a "_" entry of
\* color 3: the cell has color 3.
C13_LeafOverride ==
    (pc = "api" /\ current_buffer.title = <<"Nested">>) =>
        LET root == current_buffer.data.schema.map["_"].tup
            grp  == current_buffer.data.schema.map["grp"].map["_"].tup
            leaf == current_buffer.data.schema.map["grp"].map["leaf"].tup
            cell == current_buffer.lines[1][1]
            head == current_buffer.col_names[1]
        IN  /\ leaf[2] # None => Len(cell.text) = leaf[2].n /\ Len(head.text) = leaf[2].n
            /\ leaf[1] # None => head.text = center(Take(leaf[1].s, Len(head.text)), Len(head.text))
            /\ leaf[3] # None => cell.text = ljust(<<"a", "b">>, Len(cell.text))
            /\ leaf[4] # None => cell.color = leaf[4].n
            /\ leaf[2] = None => Len(cell.text) \in {v.n : v \in {root[2], grp[2]} \ {None}}
            /\ (leaf[4] = None /\ {root[4], grp[4]} # {None})
                  => cell.color \in {v.n : v \in {root[4], grp[4]} \ {None}}
            /\ (leaf[4] = None /\ {root[4], grp[4]} = {None}) => cell.color = 0
            /\ (leaf[3] = None /\ {root[3], grp[3]} = {None}) => cell.text = ljust(<<"a", "b">>, Len(cell.text))

\* C14: platform_justify(s, 3) of a string s of at most three characters is
\* three characters long: three spaces for the empty s, the character between
\* two spaces for a single one, s right-justified when its first character
\* is numeric and its last alphabetic, s left-justified otherwise; with any
\* other width the call raises ValueError, whatever s is.
C14_PlatformJustifier ==
    (pc # "renew" /\ current_buffer.title = <<"Platform">>) =>
        LET s == current_buffer.data.rows[1].d["platform"].s
            w == current_buffer.data.schema.map["platform"].tup[2].n
        IN  IF w # 3 THEN pc = "raised" /\ exc = "ValueError"
            ELSE Len(s) <= 3 =>
                 /\ pc = "api"
                 /\ Len(current_buffer.lines[1][1].text) = 3
                 /\ current_buffer.lines[1][1].text =
                       IF s = <<>> THEN <<" ", " ", " ">>
                       ELSE IF Len(s) = 1 THEN <<" ", s[1], " ">>
                       ELSE IF s[1] = "3" /\ s[Len(s)] = "R" THEN Spaces(3 - Len(s)) \o s
                       ELSE s \o Spaces(3 - Len(s))

\* renew() has justified "3R" in a column of width 3
C14_Witness ==
    /\ pc = "api"
    /\ current_buffer.title = <<"Platform">>
    /\ current_buffer.data.rows[1].d["platform"].s = <<"3", "R">>
    /\ current_buffer.lines[1][1].text = <<" ", "3", "R">>

\* C15: on a Buffer of N rows that is not refreshed, at any offset from 0 to
\* N, scroll_up(n) leaves the offset max(offset - n, 0) and scroll_down(n)
\* leaves it min(offset + n, N), for every n >= 0; after scroll_up(1000)
\* position_summary starts at row 1, and after scroll_down(1000) the offset
\* is N.
C15_ScrollClamp ==
    pc = "api" =>
        /\ current_buffer.line_offset \in 0..Len(current_buffer.data.rows)
        /\ \A n \in {0, 1, 2, 1000} :
              /\ scroll_up(current_buffer, n).line_offset =
                    (IF current_buffer.line_offset - n > 0 THEN current_buffer.line_offset - n ELSE 0)
              /\ scroll_down(current_buffer, n).line_offset =
                    (IF current_buffer.line_offset + n < Len(current_buffer.data.rows)
                     THEN current_buffer.line_offset + n ELSE Len(current_buffer.data.rows))
        /\ \A dim_lines \in 1..WelcomeRows :
              position_summary(scroll_up(current_buffer, 1000), dim_lines)[1] = 1
        /\ scroll_down(current_buffer, 1000).line_offset = Len(current_buffer.data.rows)

\* the welcome rows scrolled down as far as the offset goes
C15_Witness ==
    /\ pc = "api"
    /\ Len(current_buffer.data.rows) = WelcomeRows
    /\ current_buffer.line_offset = WelcomeRows
    /\ current_buffer.headers_outstanding
    /\ current_buffer.body_outstanding

\* C16: the construction of a view, a scroll up or down, the invalidate of a
\* resize and a completed refresh each leave headers_outstanding and
\* body_outstanding both set; the render pass clears both, and they stay
\* clear while main() waits for a key.
C16_DirtyFlags ==
    [][/\ (/\ pc = "poll" /\ pc' = "tick"
           /\ \/ k' = KEY_RESIZE
              \/ ~text_entry_mode /\ k' \in {KEY_DOWN, KEY_UP}
              \/ text_entry_mode /\ k' \in {KEY_ENTER, KEY_LF} /\ current_buffer'.cls # current_buffer.cls)
             => current_buffer'.headers_outstanding /\ current_buffer'.body_outstanding
       /\ (pc = "tick" /\ pc' = "render" /\ Stale(age))
             => current_buffer'.headers_outstanding /\ current_buffer'.body_outstanding
       /\ pc = "render"
             => pc' = "poll" /\ ~current_buffer'.headers_outstanding /\ ~current_buffer'.body_outstanding
       /\ pc = "poll"
             => ~current_buffer.headers_outstanding /\ ~current_buffer.body_outstanding]_vars

\* a BoardBuffer constructed, scrolled down and drawn
C16_Witness ==
    /\ pc = "poll"
    /\ current_buffer.cls = "Board"
    /\ current_buffer.line_offset = 1
    /\ k = KEY_DOWN
    /\ ~current_buffer.headers_outstanding
    /\ ~current_buffer.body_outstanding

\* C17: an iteration of the loop is the staleness check, then the render
\* pass, then one getch() with its dispatch, in this order, on the one
\* Buffer main() holds; the Buffer given to the render pass has a cache that
\* renew() built completely from its present dataset: a line for each row, a
\* header for each column of the format, and the cells renew() gives them.
C17_LoopOrder ==
    [][/\ pc = "tick" => pc' \in {"render", "raised"}
       /\ pc = "render" => pc' = "poll" /\ current_buffer' = render(render_headers(current_buffer))
       /\ pc = "poll" => pc' \in {"tick", "quit", "raised"}
       /\ pc = "render" =>
             /\ Len(current_buffer.lines) = Len(current_buffer.data.rows)
             /\ Len(current_buffer.col_names) = Len(current_buffer.format)
             /\ \E r \in {renew(current_buffer.cls, current_buffer.data, current_buffer.format)} :
                   r.exc = "" /\ current_buffer.lines = r.lines /\ current_buffer.col_names = r.col_names]_vars

\* a ServiceBuffer of MaxRows rows at the render pass, after a key of
\* Navigation mode
C17_Witness ==
    /\ pc = "render"
    /\ current_buffer.cls = "Service"
    /\ Len(current_buffer.lines) = MaxRows
    /\ k = KEY_UP

\* C18: in Entry mode the delete key takes the character at index cursor_pos
\* out of compose and leaves the cursor where it is, for every cursor_pos
\* from 0 to len(compose) - 1; at len(compose) it changes nothing.  Refuted
\* with the cursor at 0 before a character: compose is left as it was.
C18_DeleteAtCursor ==
    [][(pc = "poll" /\ text_entry_mode /\ k' = KEY_DC)
          => /\ cursor_pos' = cursor_pos
             /\ compose' = IF cursor_pos < Len(compose)
                           THEN Take(compose, cursor_pos) \o Drop(compose, cursor_pos + 1)
                           ELSE compose]_vars

\* C19: in a Board View and in a Service View, the "platform" cell of a row
\* whose arrival-side or departure-side live platform is known shows the
\* departure-side one if it is known and the arrival-side one otherwise,
\* justified by platform_justify to width 3, in color 3, whether the row has
\* a scheduled platform or not.  Refuted by a row without a scheduled
\* platform: renew() empties the text the hook returned.
C19_PlatformFallback ==
    (pc = "api" /\ current_buffer.cls \in {"Board", "Service"}) =>
        \A i \in 1..Len(current_buffer.lines) :
            \A j \in 1..Len(current_buffer.lines[i]) :
                \A dep \in {current_buffer.data.rows[i].d["trust_departure"].d["platform"]},
                   arr \in {current_buffer.data.rows[i].d["trust_arrival"].d["platform"]} :
                    (current_buffer.format[j] = <<"platform">> /\ {dep, arr} # {None})
                       => current_buffer.lines[i][j]
                             = [text |-> platform_justify((IF dep # None THEN dep ELSE arr).s, 3).s,
                                color |-> 3]

\* C20: for a row with an actual arrival or departure time the variance rule
\* reads the departure-side movement record if it has a variation status and
\* the arrival-side one otherwise; a status "E" or "L" of that record is shown
\* after its variation; with any other status, an empty one or none on both
\* records included, the cell is blank; and the hook raises nothing.
\* Refuted by a row with an actual time and no status on either record
\* (TypeError), and by one with an empty status on both: the cell is "  1".
C20_VarianceSelection ==
    current_buffer.cls \in {"Board", "Service"} =>
        /\ pc # "raised"
        /\ pc = "api" =>
              \A i \in 1..Len(current_buffer.lines) :
                  \A j \in 1..Len(current_buffer.lines[i]) :
                      \A dep \in {current_buffer.data.rows[i].d["trust_departure"].d},
                         arr \in {current_buffer.data.rows[i].d["trust_arrival"].d} :
                          \A chosen \in {IF dep["variation_status"] \notin {None, S(<<>>)} THEN dep ELSE arr} :
                              (/\ current_buffer.format[j] = <<"service", "current_variation">>
                               /\ {current_buffer.data.rows[i].d["arrival_actual"].d["ut"],
                                   current_buffer.data.rows[i].d["departure_actual"].d["ut"]} # {None})
                                 => IF chosen["variation_status"] \in {S(<<"E">>), S(<<"L">>)}
                                    THEN current_buffer.data.rows[i].d["service"].d["current_variation"] # None
                                            => current_buffer.lines[i][j].text
                                                  = rjust(Str(chosen["variation"]) \o chosen["variation_status"].s, 3)
                                    ELSE current_buffer.lines[i][j].text = <<" ", " ", " ">>

C22_IdleRefresh ==
    /\ [](current_buffer.cls \in {"Board", "Service"} => age <= (Threshold + 2) * Second)
    /\ (current_buffer.cls \in {"Board", "Service"} /\ pc = "poll")
          ~> ((pc = "render" /\ age = 0) \/ pc = "raised")

\* a live view just refreshed by the idle loop, drawn before
C22_Witness ==
    /\ current_buffer.cls = "Board"
    /\ pc = "render"
    /\ age = 0
    /\ k = ERR
    /\ current_buffer.headers_outstanding

\* C23: the loop ends only on "q" in Navigation mode; in Entry mode "q", "t"
\* and ":" are inserted in compose like any character (or refused with a
\* beep when the line is full) and the up and down keys leave the scroll
\* offset alone; in Navigation mode no key changes compose or the cursor;
\* Entry mode is left only by Enter.  Refuted by the ends of the loop that
\* no key "q" makes: an uncaught exception leaves main().
C23_QuitAndModes ==
    [][/\ pc = "poll" /\ pc' # "tick" => ~text_entry_mode /\ k' = 113 /\ pc' = "quit"
       /\ pc = "tick" => pc' = "render"
       /\ pc = "render" => pc' = "poll"
       /\ (pc = "poll" /\ text_entry_mode /\ k' \in {113, 116, 58})
             => /\ text_entry_mode'
                /\ \/ /\ compose' = Take(compose, cursor_pos) \o <<Chr(k')>> \o Drop(compose, cursor_pos)
                      /\ cursor_pos' = cursor_pos + 1
                   \/ beeped' /\ compose' = compose /\ cursor_pos' = cursor_pos
       /\ (pc = "poll" /\ text_entry_mode /\ k' \in {KEY_UP, KEY_DOWN})
             => current_buffer'.line_offset = current_buffer.line_offset
       /\ (pc = "poll" /\ ~text_entry_mode) => compose' = compose /\ cursor_pos' = cursor_pos
       /\ (text_entry_mode /\ ~text_entry_mode') => k' \in {KEY_ENTER, KEY_LF}]_vars

\* C24: at every offset a Buffer of N >= 1 rows reaches, for every page size
\* of at least 1, position_summary gives offset + 1, min(offset + page size,
\* N) and N, with 1 <= start <= end <= N: the first row it reports is never
\* beyond the last row.  Refuted: scroll_down stops at offset N, not N - 1,
\* where the summary starts at N + 1.
C24_PositionSummary ==
    (pc = "api" /\ Len(current_buffer.data.rows) >= 1) =>
        \A dim_lines \in 1..(WelcomeRows + 1) :
            \A p \in {position_summary(current_buffer, dim_lines)} :
                /\ p[1] = current_buffer.line_offset + 1
                /\ p[2] = (IF current_buffer.line_offset + dim_lines < Len(current_buffer.data.rows)
                           THEN current_buffer.line_offset + dim_lines
                           ELSE Len(current_buffer.data.rows))
                /\ p[3] = Len(current_buffer.data.rows)
                /\ 1 <= p[1]
                /\ p[1] <= p[2]
                /\ p[2] <= p[3]

\* C25: scroll_up and scroll_down change line_offset and the two dirty flags
\* and nothing else of the Buffer - dataset, format, title, headers and
\* cached lines stay - and do not move last_refreshed; refresh() of a
\* TextBuffer sets the two dirty flags and changes nothing else of it.
C25_ScrollFrame ==
    [][/\ (pc = "poll" /\ ~text_entry_mode /\ k' \in {KEY_UP, KEY_DOWN})
             => /\ current_buffer' = [current_buffer EXCEPT !.line_offset = current_buffer'.line_offset,
                                                            !.headers_outstanding = TRUE,
                                                            !.body_outstanding = TRUE]
                /\ age' - age \in Elapses
       /\ (pc = "tick" /\ current_buffer.cls = "Text" /\ Stale(age) /\ pc' = "render")
             => current_buffer' = [current_buffer EXCEPT !.headers_outstanding = TRUE,
                                                         !.body_outstanding = TRUE]]_vars

\* a live view of MaxRows rows scrolled down, then up by one
C25_Witness ==
    /\ pc = "tick"
    /\ ~text_entry_mode
    /\ k = KEY_UP
    /\ current_buffer.cls = "Board"
    /\ Len(current_buffer.lines) = MaxRows
    /\ current_buffer.line_offset = MaxRows - 1

====
